---- MODULE Spec2Model ----
(***************************************************************************)
(* Model of the availability computation of the Google Calendar MCP        *)
(* server: googleCalendarService.CheckAvailability and its helper          *)
(* calculateFreeTimeSlots (src/calendar/service.go).                       *)
(*                                                                         *)
(* Instants (time.Time) are integers 0..MaxT; the zero time.Time is        *)
(* ZeroTime, earlier than every instant.  An RFC3339 string is a sequence: *)
(* <<t>> is the text of instant t and <<>> is the empty string that the    *)
(* calendar API delivers in DateTime for a date-only (all-day) event.      *)
(*                                                                         *)
(* Specifications: Spec (CheckAvailability called directly), SpecTool      *)
(* (main's start-up and the tool handlers), SpecConc (two concurrent       *)
(* calls of calculateFreeTimeSlots), SpecService (CreateEvent and          *)
(* UpdateEvent called directly) and SpecConfig (LoadConfig and the logged  *)
(* configuration).                                                         *)
(***************************************************************************)
EXTENDS Integers, Sequences, FiniteSets, TLC

\* Largest instant of the model.
MaxT == 3
\* Largest number of events the remote calendar store returns.
MaxBusy == 2

\* time.Time{}: what time.Parse returns together with an error.
ZeroTime == 0 - 1

Times == 0..MaxT

\* calendar.Event values the store can return: timed events carry two
\* RFC3339 strings (in either order: the store is not trusted), date-only
\* events carry two empty DateTime strings.
Events ==
  {[Start |-> <<s>>, End |-> <<e>>] : s \in Times, e \in Times}
    \cup {[Start |-> <<>>, End |-> <<>>]}

RECURSIVE SeqsUpTo(_, _)
SeqsUpTo(S, n) ==
  IF n = 0 THEN {<<>>}
  ELSE LET shorter == SeqsUpTo(S, n - 1)
       IN shorter \cup {Append(q, x) : q \in {r \in shorter : Len(r) = n - 1}, x \in S}

\* time.Parse(time.RFC3339, s) with the error dropped, as every call in
\* calculateFreeTimeSlots does: a string that does not parse gives ZeroTime.
ParseRFC3339(s) == IF Len(s) = 1 THEN s[1] ELSE ZeroTime

\* A comparison that orders by start descending.
lessDescending(a, b) == ParseRFC3339(a.Start) > ParseRFC3339(b.Start)

\* The comparison handed to sort.Slice.
less(a, b) == ParseRFC3339(a.Start) < ParseRFC3339(b.Start)

\* One pass of the insertion sort: e moves left while less(e, left neighbour).
RECURSIVE insertEvent(_, _)
insertEvent(prefix, e) ==
  IF prefix = <<>> THEN <<e>>
  ELSE IF less(e, prefix[Len(prefix)])
       THEN Append(insertEvent(SubSeq(prefix, 1, Len(prefix) - 1), e), prefix[Len(prefix)])
       ELSE Append(prefix, e)

\* sort.Slice(events, less).  For slices of at most 12 elements the Go
\* runtime sorts by insertion sort, which is what this computes.
RECURSIVE sortSlice(_)
sortSlice(evs) ==
  IF evs = <<>> THEN <<>>
  ELSE insertEvent(sortSlice(SubSeq(evs, 1, Len(evs) - 1)), evs[Len(evs)])

\* "Skip events outside our time range".
skipEvent(eventStart, eventEnd, startTime_, endTime_) ==
  eventEnd < startTime_ \/ eventStart > endTime_

\* An adjustment that leaves the event's start where it is.
clipStartNone(eventStart, startTime_) == eventStart

\* "Adjust event times to our range".
clipStart(eventStart, startTime_) ==
  IF eventStart < startTime_ THEN startTime_ ELSE eventStart

\* No clipping of the event's end to the window's end.
clipEndNone(eventEnd, endTime_) == eventEnd

clipEnd(eventEnd, endTime_) ==
  IF eventEnd > endTime_ THEN endTime_ ELSE eventEnd

TimeSlot(s, e, f) == [Start |-> s, End |-> e, Free |-> f]

\* One iteration of the loop over the sorted events; st is the pair of the
\* loop's variables currentTime and timeSlots.
sweepStep(st, startTime_, endTime_, event) ==
  LET eventStart == ParseRFC3339(event.Start)
      eventEnd   == ParseRFC3339(event.End)
  IN IF skipEvent(eventStart, eventEnd, startTime_, endTime_) THEN st
     ELSE LET cs == clipStart(eventStart, startTime_)
              ce == clipEnd(eventEnd, endTime_)
              withFree == IF st.currentTime < cs
                          THEN Append(st.timeSlots, TimeSlot(st.currentTime, cs, TRUE))
                          ELSE st.timeSlots
          IN [currentTime |-> IF ce > st.currentTime THEN ce ELSE st.currentTime,
              timeSlots   |-> Append(withFree, TimeSlot(cs, ce, FALSE))]

\* The loop over the first n sorted events, from currentTime = startTime.
RECURSIVE sweep(_, _, _, _)
sweep(sorted, n, startTime_, endTime_) ==
  IF n = 0 THEN [currentTime |-> startTime_, timeSlots |-> <<>>]
  ELSE sweepStep(sweep(sorted, n - 1, startTime_, endTime_),
                 startTime_, endTime_, sorted[n])

\* calculateFreeTimeSlots without its "Add final free slot if needed".
calculateFreeTimeSlotsNoFinal(startTime_, endTime_, evs) ==
  IF Len(evs) = 0 THEN <<TimeSlot(startTime_, endTime_, TRUE)>>
  ELSE LET sorted == sortSlice(evs)
       IN sweep(sorted, Len(sorted), startTime_, endTime_).timeSlots

\* calculateFreeTimeSlots(startTime, endTime, events): the returned slice.
calculateFreeTimeSlots(startTime_, endTime_, evs) ==
  IF Len(evs) = 0 THEN <<TimeSlot(startTime_, endTime_, TRUE)>>
  ELSE LET sorted == sortSlice(evs)
           st     == sweep(sorted, Len(sorted), startTime_, endTime_)
       IN IF st.currentTime < endTime_
          THEN Append(st.timeSlots, TimeSlot(st.currentTime, endTime_, TRUE))
          ELSE st.timeSlots

VARIABLES
  remoteEvents,  \* the events the calendar store holds, in the order it lists them
  startTime,     \* CheckAvailability's startTime argument
  endTime,       \* CheckAvailability's endTime argument
  events,        \* events.Items, the slice calculateFreeTimeSlots works on
  timeSlots,     \* the returned []TimeSlot (nil is <<>>)
  err,           \* the returned error's code, "nil" for no error
  errType,       \* the returned error's ErrorType, "nil" for no error
  requests,      \* the requests sent to the calendar store during the call
  slotRuns,      \* how often calculateFreeTimeSlots ran during the call
  pc,            \* "ready" before the first call, "done" after a call
  service,       \* ToolManager.service: "nil" or "ok"
  tool,          \* name of the tool the last request called, "none" at start
  args,          \* the arguments of the last tool request
  toolResult,    \* the mcp.CallToolResult of the last tool request
  svcCalls,      \* how often the handler called a method of tm.service
  callArgs,      \* concurrent calls: the arguments of each call
  frames,        \* concurrent calls: the local variables of each call
  storeError,    \* the error the store answered the call's last request with
  storedEvent,   \* the event the store holds under the id an update names
  sentEvent,     \* the event carried by the Events.Update request
  listParams,    \* the parameters of the Events.List request
  env,           \* the process environment and the files that exist
  config,        \* the *CalendarConfig LoadConfig returned
  cfgErr,        \* the code of the error LoadConfig returned, "nil" for none
  logged         \* what main wrote to the log about the configuration

\* What a call of the calendar service leaves behind.
callVars ==
  <<startTime, endTime, events, timeSlots, err, errType, requests, slotRuns, storeError>>

\* What a tool request leaves behind.
toolVars == <<service, tool, args, toolResult, svcCalls>>

\* The concurrent calls of calculateFreeTimeSlots.
concVars == <<callArgs, frames>>

\* What the requests to the calendar store carry and change.
storeVars == <<storedEvent, sentEvent, listParams>>

\* What loading the configuration reads and leaves behind.
configVars == <<env, config, cfgErr, logged>>

vars == <<remoteEvents, callVars, pc, toolVars, concVars, storeVars, configVars>>

NoResult == [isError |-> FALSE, text |-> "none"]
NoArgs == [none |-> TRUE]

\* No environment read, no configuration loaded, nothing logged.
NoEnv == [none |-> TRUE]
NilConfig == [none |-> TRUE]
NoConfig ==
  /\ env = NoEnv
  /\ config = NilConfig
  /\ cfgErr = "nil"
  /\ logged = <<>>

\* No Events.Update request, no Events.List request.
NoEvent == [none |-> TRUE]
NoParams == [none |-> TRUE]

\* s.config.CalendarID, the calendar LoadConfig configured.
ConfiguredCalendar == <<0>>

\* The events the store can hold under the id an update names: a titled
\* event from instant 1 to instant 2.
StoredEvents == {[Summary |-> <<1>>, Start |-> <<1>>, End |-> <<2>>]}

\* The store before any request; no update names an event.
NoRequest ==
  /\ storedEvent = NoEvent
  /\ sentEvent = NoEvent
  /\ listParams = NoParams

\* Errors the store answers a request with, by the text the code looks for;
\* "nil" for success or no request.
StoreErrors == {"rateLimitExceeded", "backendError", "notFound", "forbidden"}

\* The store errors a service method turns into the error code.
storeErrorsFor(code) ==
  IF code \in {"EVENT_NOT_FOUND", "CALENDAR_NOT_FOUND"} THEN {"notFound"}
  ELSE IF code = "PERMISSION_DENIED" THEN {"forbidden"}
  ELSE {"rateLimitExceeded", "backendError"}

\* The parameters of the Events.List request, if the call sent one.
sentParams(p) == IF requests' = <<>> THEN NoParams ELSE p

\* The state before any call: nothing returned, nothing sent.
NoCall ==
  /\ startTime = 0
  /\ endTime = 0
  /\ events = <<>>
  /\ timeSlots = <<>>
  /\ err = "nil"
  /\ errType = "nil"
  /\ requests = <<>>
  /\ slotRuns = 0
  /\ storeError = "nil"

Init ==
  /\ remoteEvents \in SeqsUpTo(Events, MaxBusy)
  /\ NoCall
  /\ pc = "ready"
  /\ service = "ok"
  /\ tool = "none"
  /\ args = NoArgs
  /\ toolResult = NoResult
  /\ svcCalls = 0
  /\ callArgs = <<>>
  /\ frames = <<>>
  /\ NoRequest
  /\ NoConfig

\* A range check that rejects nothing.
invalidTimeRangeNever(st, et) == FALSE

\* startTime.After(endTime), the range check of CheckAvailability.
invalidTimeRange(st, et) == st > et

\* CheckAvailability(st, et), start after end: rejected before anything else.
checkAvailabilityInvalidRange(st, et) ==
  /\ invalidTimeRange(st, et)
  /\ startTime' = st
  /\ endTime' = et
  /\ timeSlots' = <<>>
  /\ err' = "INVALID_TIME_RANGE"
  /\ errType' = "INVALID_INPUT"
  /\ events' = <<>>
  /\ requests' = <<>>
  /\ slotRuns' = 0
  /\ storeError' = "nil"

\* CheckAvailability(st, et), GetCalendarService fails: no authenticated
\* client, or no calendar client.
checkAvailabilityAuthFailed(st, et) ==
  /\ ~invalidTimeRange(st, et)
  /\ startTime' = st
  /\ endTime' = et
  /\ \/ err' = "INVALID_CREDENTIALS" /\ errType' = "AUTHENTICATION_ERROR"
     \/ err' = "SERVICE_UNAVAILABLE" /\ errType' = "INTERNAL_ERROR"
  /\ timeSlots' = <<>>
  /\ events' = <<>>
  /\ requests' = <<>>
  /\ slotRuns' = 0
  /\ storeError' = "nil"

\* CheckAvailability(st, et), Events.List(...).Do() fails.
checkAvailabilityListFailed(st, et) ==
  /\ ~invalidTimeRange(st, et)
  /\ startTime' = st
  /\ endTime' = et
  /\ requests' = <<"list">>
  /\ err' = "SERVICE_UNAVAILABLE"
  /\ errType' = "INTERNAL_ERROR"
  /\ timeSlots' = <<>>
  /\ events' = <<>>
  /\ slotRuns' = 0
  /\ storeError' \in StoreErrors

\* CheckAvailability(st, et), the store answers: the slots are computed from
\* events.Items, which sort.Slice leaves sorted in place.
checkAvailabilityOK(st, et) ==
  /\ ~invalidTimeRange(st, et)
  /\ startTime' = st
  /\ endTime' = et
  /\ requests' = <<"list">>
  /\ timeSlots' = calculateFreeTimeSlots(st, et, remoteEvents)
  /\ slotRuns' = 1
  /\ events' = sortSlice(remoteEvents)
  /\ err' = "nil"
  /\ errType' = "nil"
  /\ storeError' = "nil"

\* A direct call of CheckAvailability with any two instants.
CheckAvailabilityInvalidRange ==
  /\ pc = "ready"
  /\ \E st \in Times, et \in Times : checkAvailabilityInvalidRange(st, et)
  /\ listParams' = sentParams([calendarId |-> ConfiguredCalendar])
  /\ pc' = "done"
  /\ UNCHANGED <<remoteEvents, toolVars, concVars, storedEvent, sentEvent, configVars>>

CheckAvailabilityAuthFailed ==
  /\ pc = "ready"
  /\ \E st \in Times, et \in Times : checkAvailabilityAuthFailed(st, et)
  /\ listParams' = sentParams([calendarId |-> ConfiguredCalendar])
  /\ pc' = "done"
  /\ UNCHANGED <<remoteEvents, toolVars, concVars, storedEvent, sentEvent, configVars>>

CheckAvailabilityListFailed ==
  /\ pc = "ready"
  /\ \E st \in Times, et \in Times : checkAvailabilityListFailed(st, et)
  /\ listParams' = sentParams([calendarId |-> ConfiguredCalendar])
  /\ pc' = "done"
  /\ UNCHANGED <<remoteEvents, toolVars, concVars, storedEvent, sentEvent, configVars>>

CheckAvailabilityOK ==
  /\ pc = "ready"
  /\ \E st \in Times, et \in Times : checkAvailabilityOK(st, et)
  /\ listParams' = sentParams([calendarId |-> ConfiguredCalendar])
  /\ pc' = "done"
  /\ UNCHANGED <<remoteEvents, toolVars, concVars, storedEvent, sentEvent, configVars>>

Next ==
  \/ CheckAvailabilityInvalidRange
  \/ CheckAvailabilityAuthFailed
  \/ CheckAvailabilityListFailed
  \/ CheckAvailabilityOK

Spec == Init /\ [][Next]_vars

(***************************************************************************)
(* The tool layer: main's start-up and the handlers registered with the    *)
(* MCP server.  A handler runs from the request to its result in one step. *)
(***************************************************************************)

\* Largest number of events in the store when tools are called.
ToolMaxBusy == 2

\* A string argument of a tool request: absent, or present with its text.
Absent == [present |-> FALSE, text |-> <<>>]
Str(t) == [present |-> TRUE, text |-> t]

\* Texts given for a time argument: the timestamps, the empty string, and
\* <<0, 0>> for a text that is no RFC3339 timestamp.
TimeTexts == {<<t>> : t \in Times} \cup {<<>>, <<0, 0>>}
TimeArgs == {Absent} \cup {Str(x) : x \in TimeTexts}

\* A parse that accepts every text.
parseFailsNever(text) == FALSE

\* time.Parse(time.RFC3339, text) returns an error.
parseFails(text) == Len(text) # 1

ErrorResult(t) == [isError |-> TRUE, text |-> t]
TextResult(t) == [isError |-> FALSE, text |-> t]

Unavailable == ErrorResult("Calendar service unavailable")

\* An availability check that lets every request through.
checkServiceAvailabilityNone(svc) == FALSE

\* checkServiceAvailability returns an error result (TRUE) iff tm.service is nil.
checkServiceAvailability(svc) == svc = "nil"

\* The handler returns without having called the calendar service.
NoServiceCall ==
  /\ svcCalls' = 0
  /\ startTime' = 0
  /\ endTime' = 0
  /\ events' = <<>>
  /\ timeSlots' = <<>>
  /\ err' = "nil"
  /\ errType' = "nil"
  /\ requests' = <<>>
  /\ slotRuns' = 0
  /\ storeError' = "nil"
  /\ UNCHANGED storeVars

\* A method call on the nil tm.service panics; server.WithRecovery turns the
\* panic into an error result.
NilServicePanic ==
  /\ svcCalls' = 1
  /\ startTime' = 0
  /\ endTime' = 0
  /\ events' = <<>>
  /\ timeSlots' = <<>>
  /\ err' = "nil"
  /\ errType' = "nil"
  /\ requests' = <<>>
  /\ slotRuns' = 0
  /\ storeError' = "nil"
  /\ UNCHANGED storeVars
  /\ toolResult' = ErrorResult("panic")

\* The result a handler builds from what the service method returned:
\* calErr.Error() starts with the error code.
ServiceResult(okText) ==
  IF err' = "nil" THEN TextResult(okText) ELSE ErrorResult(err')

\* main: LoadConfig fails and the process exits, or the server starts with
\* the calendar service, or with a nil service when NewCalendarService failed.
Main ==
  /\ pc = "start"
  /\ \/ pc' = "exited" /\ service' = "nil"
     \/ pc' = "ready" /\ service' = "ok"
     \/ pc' = "ready" /\ service' = "nil"
  /\ UNCHANGED <<remoteEvents, callVars, tool, args, toolResult, svcCalls, concVars, storeVars,
                 configVars>>

\* Values given for calendar_id: none, the configured calendar, another one.
CalendarArgs == {Absent, Str(<<0>>), Str(<<1>>)}

\* The handler of check_google_calendar.
CheckGoogleCalendarTool ==
  /\ pc = "ready"
  /\ \E a \in TimeArgs, b \in TimeArgs, c \in CalendarArgs :
       /\ tool' = "check_google_calendar"
       /\ args' = [start_time |-> a, end_time |-> b, calendar_id |-> c]
       /\ IF checkServiceAvailability(service)
            THEN toolResult' = Unavailable /\ NoServiceCall
          ELSE IF ~a.present
            THEN toolResult' = ErrorResult("Invalid start_time") /\ NoServiceCall
          ELSE IF ~b.present
            THEN toolResult' = ErrorResult("Invalid end_time") /\ NoServiceCall
          ELSE IF parseFails(a.text)
            THEN toolResult' = ErrorResult("Invalid start_time format") /\ NoServiceCall
          ELSE IF parseFails(b.text)
            THEN toolResult' = ErrorResult("Invalid end_time format") /\ NoServiceCall
          ELSE IF service = "nil"
            THEN NilServicePanic
          ELSE /\ svcCalls' = 1
               /\ \/ checkAvailabilityInvalidRange(ParseRFC3339(a.text), ParseRFC3339(b.text))
                  \/ checkAvailabilityAuthFailed(ParseRFC3339(a.text), ParseRFC3339(b.text))
                  \/ checkAvailabilityListFailed(ParseRFC3339(a.text), ParseRFC3339(b.text))
                  \/ checkAvailabilityOK(ParseRFC3339(a.text), ParseRFC3339(b.text))
               /\ listParams' = sentParams([calendarId |-> ConfiguredCalendar])
               /\ UNCHANGED <<storedEvent, sentEvent>>
               /\ toolResult' = ServiceResult("time_slots")
  /\ pc' = "done"
  /\ UNCHANGED <<remoteEvents, service, concVars, configVars>>

\* A service method returns the error (code, type) after having sent reqs.
callFailed(st, et, code, type, reqs) ==
  /\ startTime' = st
  /\ endTime' = et
  /\ err' = code
  /\ errType' = type
  /\ requests' = reqs
  /\ events' = <<>>
  /\ timeSlots' = <<>>
  /\ slotRuns' = 0
  /\ IF reqs = <<>> THEN storeError' = "nil" ELSE storeError' \in storeErrorsFor(code)

\* A service method other than CheckAvailability succeeds after having sent
\* reqs; evs are the events it read from the store.
callOK(st, et, reqs, evs) ==
  /\ startTime' = st
  /\ endTime' = et
  /\ err' = "nil"
  /\ errType' = "nil"
  /\ requests' = reqs
  /\ events' = evs
  /\ timeSlots' = <<>>
  /\ slotRuns' = 0
  /\ storeError' = "nil"

\* GetCalendarService fails: no authenticated client, or no calendar client.
authFailed(st, et) ==
  \/ callFailed(st, et, "INVALID_CREDENTIALS", "AUTHENTICATION_ERROR", <<>>)
  \/ callFailed(st, et, "SERVICE_UNAVAILABLE", "INTERNAL_ERROR", <<>>)

\* DefaultMaxResults of errors.go.
DefaultMaxResults == 50

\* The store's answer to Events.List(...).MaxResults(n): the first n events.
storeList(n) ==
  IF Len(remoteEvents) <= n THEN remoteEvents ELSE SubSeq(remoteEvents, 1, n)

\* ListEvents(timeMin, timeMax).
listEvents(timeMin, timeMax) ==
  /\ IF timeMin > timeMax
      THEN callFailed(timeMin, timeMax, "INVALID_TIME_RANGE", "INVALID_INPUT", <<>>)
      ELSE \/ authFailed(timeMin, timeMax)
           \/ callFailed(timeMin, timeMax, "SERVICE_UNAVAILABLE", "INTERNAL_ERROR", <<"list">>)
           \/ callOK(timeMin, timeMax, <<"list">>, storeList(DefaultMaxResults))
  /\ listParams' = sentParams([calendarId |-> ConfiguredCalendar,
                               maxResults |-> DefaultMaxResults])
  /\ UNCHANGED <<storedEvent, sentEvent>>

\* strings.Contains(email, "@") fails for some attendee: the attendee texts
\* are <<1>> (every address has an "@") and <<0>> (one has none).
hasBadEmail(attendees) == attendees = <<0>>

\* A validation that accepts every request.
validateNothing(summary, st, et, attendees) == "nil"

\* validateEventCreateRequest: the code of the error, "nil" when valid.
validateEventCreateRequest(summary, st, et, attendees) ==
  IF summary = <<>> THEN "INVALID_EVENT_DATA"
  ELSE IF st = ZeroTime THEN "INVALID_TIME_FORMAT"
  ELSE IF et = ZeroTime THEN "INVALID_TIME_FORMAT"
  ELSE IF st > et THEN "INVALID_TIME_RANGE"
  ELSE IF hasBadEmail(attendees) THEN "INVALID_EVENT_DATA"
  ELSE "nil"

\* CreateEvent(eventReq).
createEvent(summary, st, et, attendees) ==
  /\ IF validateEventCreateRequest(summary, st, et, attendees) # "nil"
      THEN callFailed(st, et, validateEventCreateRequest(summary, st, et, attendees),
                      "INVALID_INPUT", <<>>)
      ELSE \/ authFailed(st, et)
           \/ callFailed(st, et, "PERMISSION_DENIED", "PERMISSION_DENIED", <<"insert">>)
           \/ callFailed(st, et, "SERVICE_UNAVAILABLE", "INTERNAL_ERROR", <<"insert">>)
           \/ callOK(st, et, <<"insert">>, <<>>)
  /\ UNCHANGED storeVars

\* t.Format(time.RFC3339).
FormatRFC3339(t) == <<t>>

\* A *string of an EventUpdateRequest is a string argument record: Absent is
\* nil.  A *time.Time: nil, or a pointer to the instant t.
NilTime == [present |-> FALSE, time |-> ZeroTime]
PtrTime(t) == [present |-> TRUE, time |-> t]

\* applyEventUpdates(event, update): every field with a non-nil pointer is
\* overwritten.
applyEventUpdates(event, summary, st, et) ==
  [Summary |-> IF summary.present THEN summary.text ELSE event.Summary,
   Start |-> IF st.present THEN FormatRFC3339(st.time) ELSE event.Start,
   End |-> IF et.present THEN FormatRFC3339(et.time) ELSE event.End]

\* UpdateEvent(eventID, update) with update.Summary = summary,
\* update.StartTime = st and update.EndTime = et.
updateEvent(eventID, summary, st, et) ==
  /\ IF eventID = <<>>
      THEN callFailed(st.time, et.time, "INVALID_EVENT_DATA", "INVALID_INPUT", <<>>)
      ELSE \/ authFailed(st.time, et.time)
           \/ callFailed(st.time, et.time, "EVENT_NOT_FOUND", "NOT_FOUND", <<"get">>)
           \/ callFailed(st.time, et.time, "SERVICE_UNAVAILABLE", "INTERNAL_ERROR", <<"get">>)
           \/ callFailed(st.time, et.time, "PERMISSION_DENIED", "PERMISSION_DENIED",
                         <<"get", "update">>)
           \/ callFailed(st.time, et.time, "SERVICE_UNAVAILABLE", "INTERNAL_ERROR",
                         <<"get", "update">>)
           \/ callOK(st.time, et.time, <<"get", "update">>, <<>>)
  /\ sentEvent' = IF Len(requests') = 2
                    THEN applyEventUpdates(storedEvent, summary, st, et)
                    ELSE NoEvent
  /\ storedEvent' = IF Len(requests') = 2 /\ err' = "nil"
                      THEN applyEventUpdates(storedEvent, summary, st, et)
                      ELSE storedEvent
  /\ UNCHANGED listParams

\* DeleteEvent(eventID).
deleteEvent(eventID) ==
  /\ IF eventID = <<>>
      THEN callFailed(0, 0, "INVALID_EVENT_DATA", "INVALID_INPUT", <<>>)
      ELSE \/ authFailed(0, 0)
           \/ callFailed(0, 0, "EVENT_NOT_FOUND", "NOT_FOUND", <<"delete">>)
           \/ callFailed(0, 0, "PERMISSION_DENIED", "PERMISSION_DENIED", <<"delete">>)
           \/ callFailed(0, 0, "SERVICE_UNAVAILABLE", "INTERNAL_ERROR", <<"delete">>)
           \/ callOK(0, 0, <<"delete">>, <<>>)
  /\ UNCHANGED storeVars

\* SearchEvents(query, timeMin, timeMax); a zero time leaves the bound out.
searchEvents(query, timeMin, timeMax) ==
  /\ IF query = <<>>
      THEN callFailed(timeMin, timeMax, "INVALID_EVENT_DATA", "INVALID_INPUT", <<>>)
      ELSE \/ authFailed(timeMin, timeMax)
           \/ callFailed(timeMin, timeMax, "SERVICE_UNAVAILABLE", "INTERNAL_ERROR", <<"list">>)
           \/ callOK(timeMin, timeMax, <<"list">>, storeList(DefaultMaxResults))
  /\ listParams' = sentParams([calendarId |-> ConfiguredCalendar,
                               maxResults |-> DefaultMaxResults])
  /\ UNCHANGED <<storedEvent, sentEvent>>

\* GetCalendarInfo().
getCalendarInfo ==
  /\ \/ authFailed(0, 0)
     \/ callFailed(0, 0, "CALENDAR_NOT_FOUND", "NOT_FOUND", <<"calendars.get">>)
     \/ callFailed(0, 0, "SERVICE_UNAVAILABLE", "INTERNAL_ERROR", <<"calendars.get">>)
     \/ callOK(0, 0, <<"calendars.get">>, <<>>)
  /\ UNCHANGED storeVars

\* Texts given for a title, an event id or a query: "" and a proper one.
NameArgs == {Absent, Str(<<>>), Str(<<1>>)}

\* Texts given for the attendees.
AttendeeArgs == {Absent, Str(<<1>>), Str(<<0>>)}

\* Values given for max_results: none, or the number 1.
MaxResultsArgs == {[present |-> FALSE, value |-> 0], [present |-> TRUE, value |-> 1]}

\* request.GetString(key, "").
GetString(arg) == IF arg.present THEN arg.text ELSE <<>>

\* The handler of list_calendar_events.
ListEventsTool ==
  /\ pc = "ready"
  /\ \E a \in TimeArgs, b \in TimeArgs, m \in MaxResultsArgs :
       /\ tool' = "list_calendar_events"
       /\ args' = [start_time |-> a, end_time |-> b, max_results |-> m]
       /\ IF checkServiceAvailability(service)
            THEN toolResult' = Unavailable /\ NoServiceCall
          ELSE IF ~a.present
            THEN toolResult' = ErrorResult("Invalid start_time") /\ NoServiceCall
          ELSE IF ~b.present
            THEN toolResult' = ErrorResult("Invalid end_time") /\ NoServiceCall
          ELSE IF parseFails(a.text)
            THEN toolResult' = ErrorResult("Invalid start_time format") /\ NoServiceCall
          ELSE IF parseFails(b.text)
            THEN toolResult' = ErrorResult("Invalid end_time format") /\ NoServiceCall
          ELSE IF service = "nil"
            THEN NilServicePanic
          ELSE /\ svcCalls' = 1
               /\ listEvents(ParseRFC3339(a.text), ParseRFC3339(b.text))
               /\ toolResult' = ServiceResult("events")
  /\ pc' = "done"
  /\ UNCHANGED <<remoteEvents, service, concVars, configVars>>

\* The handler of create_calendar_event.
CreateEventTool ==
  /\ pc = "ready"
  /\ \E title \in NameArgs, a \in TimeArgs, b \in TimeArgs, att \in AttendeeArgs :
       /\ tool' = "create_calendar_event"
       /\ args' = [title |-> title, start_time |-> a, end_time |-> b, attendees |-> att]
       /\ IF checkServiceAvailability(service)
            THEN toolResult' = Unavailable /\ NoServiceCall
          ELSE IF ~title.present
            THEN toolResult' = ErrorResult("Invalid title") /\ NoServiceCall
          ELSE IF ~a.present
            THEN toolResult' = ErrorResult("Invalid start_time") /\ NoServiceCall
          ELSE IF ~b.present
            THEN toolResult' = ErrorResult("Invalid end_time") /\ NoServiceCall
          ELSE IF parseFails(a.text)
            THEN toolResult' = ErrorResult("Invalid start_time format") /\ NoServiceCall
          ELSE IF parseFails(b.text)
            THEN toolResult' = ErrorResult("Invalid end_time format") /\ NoServiceCall
          ELSE IF service = "nil"
            THEN NilServicePanic
          ELSE /\ svcCalls' = 1
               /\ createEvent(title.text, ParseRFC3339(a.text), ParseRFC3339(b.text),
                              GetString(att))
               /\ toolResult' = ServiceResult("event")
  /\ pc' = "done"
  /\ UNCHANGED <<remoteEvents, service, concVars, configVars>>

\* The time an optional time argument stands for: ZeroTime (no value) when
\* it is absent or empty.
OptionalTime(arg) ==
  IF GetString(arg) = <<>> THEN ZeroTime ELSE ParseRFC3339(arg.text)

\* update.Summary as the handler sets it: a pointer to the text if the text
\* is not empty, nil otherwise.
updateString(arg) == IF GetString(arg) # <<>> THEN Str(arg.text) ELSE Absent

\* update.StartTime and update.EndTime as the handler sets them.
updateTime(arg) ==
  IF GetString(arg) # <<>> THEN PtrTime(ParseRFC3339(arg.text)) ELSE NilTime

\* The handler of update_calendar_event.
UpdateEventTool ==
  /\ pc = "ready"
  /\ \E id \in NameArgs, title \in NameArgs, a \in TimeArgs, b \in TimeArgs :
       /\ tool' = "update_calendar_event"
       /\ args' = [event_id |-> id, title |-> title, start_time |-> a, end_time |-> b]
       /\ IF checkServiceAvailability(service)
            THEN toolResult' = Unavailable /\ NoServiceCall
          ELSE IF ~id.present
            THEN toolResult' = ErrorResult("Invalid event_id") /\ NoServiceCall
          ELSE IF GetString(a) # <<>> /\ parseFails(a.text)
            THEN toolResult' = ErrorResult("Invalid start_time format") /\ NoServiceCall
          ELSE IF GetString(b) # <<>> /\ parseFails(b.text)
            THEN toolResult' = ErrorResult("Invalid end_time format") /\ NoServiceCall
          ELSE IF service = "nil"
            THEN NilServicePanic
          ELSE /\ svcCalls' = 1
               /\ updateEvent(id.text, updateString(title), updateTime(a), updateTime(b))
               /\ toolResult' = ServiceResult("event")
  /\ pc' = "done"
  /\ UNCHANGED <<remoteEvents, service, concVars, configVars>>

\* The handler of delete_calendar_event.
DeleteEventTool ==
  /\ pc = "ready"
  /\ \E id \in NameArgs :
       /\ tool' = "delete_calendar_event"
       /\ args' = [event_id |-> id]
       /\ IF checkServiceAvailability(service)
            THEN toolResult' = Unavailable /\ NoServiceCall
          ELSE IF ~id.present
            THEN toolResult' = ErrorResult("Invalid event_id") /\ NoServiceCall
          ELSE IF service = "nil"
            THEN NilServicePanic
          ELSE /\ svcCalls' = 1
               /\ deleteEvent(id.text)
               /\ toolResult' = ServiceResult("success")
  /\ pc' = "done"
  /\ UNCHANGED <<remoteEvents, service, concVars, configVars>>

\* The handler of search_calendar_events.
SearchEventsTool ==
  /\ pc = "ready"
  /\ \E query \in NameArgs, a \in TimeArgs, b \in TimeArgs, m \in MaxResultsArgs :
       /\ tool' = "search_calendar_events"
       /\ args' = [query |-> query, start_time |-> a, end_time |-> b, max_results |-> m]
       /\ IF checkServiceAvailability(service)
            THEN toolResult' = Unavailable /\ NoServiceCall
          ELSE IF ~query.present
            THEN toolResult' = ErrorResult("Invalid query") /\ NoServiceCall
          ELSE IF GetString(a) # <<>> /\ parseFails(a.text)
            THEN toolResult' = ErrorResult("Invalid start_time format") /\ NoServiceCall
          ELSE IF GetString(b) # <<>> /\ parseFails(b.text)
            THEN toolResult' = ErrorResult("Invalid end_time format") /\ NoServiceCall
          ELSE IF service = "nil"
            THEN NilServicePanic
          ELSE /\ svcCalls' = 1
               /\ searchEvents(query.text, OptionalTime(a), OptionalTime(b))
               /\ toolResult' = ServiceResult("events")
  /\ pc' = "done"
  /\ UNCHANGED <<remoteEvents, service, concVars, configVars>>

\* The handler of get_calendar_info.
GetCalendarInfoTool ==
  /\ pc = "ready"
  /\ tool' = "get_calendar_info"
  /\ args' = NoArgs
  /\ IF checkServiceAvailability(service)
       THEN toolResult' = Unavailable /\ NoServiceCall
     ELSE IF service = "nil"
       THEN NilServicePanic
     ELSE /\ svcCalls' = 1
          /\ getCalendarInfo
          /\ toolResult' = ServiceResult("calendar_info")
  /\ pc' = "done"
  /\ UNCHANGED <<remoteEvents, service, concVars, configVars>>

\* The tools RegisterTools registers.
CalendarTools ==
  {"check_google_calendar", "create_calendar_event", "list_calendar_events",
   "update_calendar_event", "delete_calendar_event", "search_calendar_events",
   "get_calendar_info"}

\* Values given for the calculator's operation and numbers.
Operations == {"add", "subtract", "multiply", "divide"}
Numbers == {0, 1, 2}

\* A divisor test that finds no zero.
isZeroNever(y) == FALSE

\* y == 0, the divisor test of the divide case.
isZero(y) == y = 0

\* The handler of the calculate tool; the quotient is kept as the pair of
\* its operands.
CalculateTool ==
  /\ pc = "ready"
  /\ \E op \in Operations \cup {"absent"}, x \in Numbers, y \in Numbers :
       /\ tool' = "calculate"
       /\ args' = [operation |-> op, x |-> x, y |-> y]
       /\ toolResult' =
            IF op = "absent" THEN ErrorResult("required argument")
            ELSE IF op = "add" THEN [isError |-> FALSE, text |-> "result", value |-> <<x + y, 1>>]
            ELSE IF op = "subtract" THEN [isError |-> FALSE, text |-> "result", value |-> <<x - y, 1>>]
            ELSE IF op = "multiply" THEN [isError |-> FALSE, text |-> "result", value |-> <<x * y, 1>>]
            ELSE IF isZero(y) THEN ErrorResult("cannot divide by zero")
            ELSE [isError |-> FALSE, text |-> "result", value |-> <<x, y>>]
  /\ NoServiceCall
  /\ pc' = "done"
  /\ UNCHANGED <<remoteEvents, service, concVars, configVars>>

InitTool ==
  /\ remoteEvents \in SeqsUpTo(Events, ToolMaxBusy)
  /\ NoCall
  /\ pc = "start"
  /\ service = "nil"
  /\ tool = "none"
  /\ args = NoArgs
  /\ toolResult = NoResult
  /\ svcCalls = 0
  /\ callArgs = <<>>
  /\ frames = <<>>
  /\ storedEvent \in StoredEvents
  /\ sentEvent = NoEvent
  /\ listParams = NoParams
  /\ NoConfig

NextTool ==
  \/ Main
  \/ CheckGoogleCalendarTool
  \/ CreateEventTool
  \/ ListEventsTool
  \/ UpdateEventTool
  \/ DeleteEventTool
  \/ SearchEventsTool
  \/ GetCalendarInfoTool
  \/ CalculateTool

SpecTool == InitTool /\ [][NextTool]_vars

(***************************************************************************)
(* Concurrent calls of calculateFreeTimeSlots: each call has its own       *)
(* arguments and its own local variables and advances one statement group  *)
(* at a time (the sort, one loop iteration, the final free slot), in any   *)
(* interleaving with the other call.                                       *)
(***************************************************************************)

\* Largest instant and longest event list of the concurrent calls.
ConcMaxT == 1
ConcMaxBusy == 2

\* The concurrent calls.
Calls == {1, 2}

ConcEvents ==
  {[Start |-> <<x>>, End |-> <<y>>] : x \in 0..ConcMaxT, y \in 0..ConcMaxT}
    \cup {[Start |-> <<>>, End |-> <<>>]}

\* The arguments CheckAvailability hands over: start is not after end.
ConcInputs ==
  {[startTime |-> x, endTime |-> y, events |-> q] :
     x \in 0..ConcMaxT, y \in 0..ConcMaxT, q \in SeqsUpTo(ConcEvents, ConcMaxBusy)}
  \ {c \in [startTime : 0..ConcMaxT, endTime : 0..ConcMaxT,
            events : SeqsUpTo(ConcEvents, ConcMaxBusy)] : c.startTime > c.endTime}

\* The local variables of a call that has not run yet.
StartFrame(a) ==
  [pc |-> "start", events |-> a.events, i |-> 0, currentTime |-> 0,
   timeSlots |-> <<>>]

\* Locals kept in one place for all calls, as package-level variables would be.
localsShared(fs, p) == fs[1]

\* The local variables call p works on: its own.
localsOf(fs, p) == fs[p]

\* The next statement group of a call with arguments a and locals l.
stepFrame(a, l) ==
  IF l.pc = "start"
  THEN IF Len(l.events) = 0
       THEN [l EXCEPT !.pc = "done",
                      !.timeSlots = <<TimeSlot(a.startTime, a.endTime, TRUE)>>]
       ELSE [l EXCEPT !.pc = "loop",
                      !.events = sortSlice(l.events),
                      !.i = 1,
                      !.currentTime = a.startTime]
  ELSE IF l.i <= Len(l.events)
  THEN LET st == sweepStep([currentTime |-> l.currentTime, timeSlots |-> l.timeSlots],
                           a.startTime, a.endTime, l.events[l.i])
       IN [l EXCEPT !.i = l.i + 1,
                    !.currentTime = st.currentTime,
                    !.timeSlots = st.timeSlots]
  ELSE [l EXCEPT !.pc = "done",
                 !.timeSlots = IF l.currentTime < a.endTime
                               THEN Append(l.timeSlots,
                                           TimeSlot(l.currentTime, a.endTime, TRUE))
                               ELSE l.timeSlots]

\* Call p executes its next statement group.
ConcStep(p) ==
  /\ localsOf(frames, p).pc # "done"
  /\ frames' = [frames EXCEPT ![p] = stepFrame(callArgs[p], localsOf(frames, p))]
  /\ UNCHANGED <<remoteEvents, callVars, pc, toolVars, callArgs, storeVars, configVars>>

InitConc ==
  /\ remoteEvents = <<>>
  /\ NoCall
  /\ pc = "ready"
  /\ service = "ok"
  /\ tool = "none"
  /\ args = NoArgs
  /\ toolResult = NoResult
  /\ svcCalls = 0
  /\ callArgs \in [Calls -> ConcInputs]
  /\ frames = [p \in Calls |-> StartFrame(callArgs[p])]
  /\ NoRequest
  /\ NoConfig

NextConc == \E p \in Calls : ConcStep(p)

SpecConc == InitConc /\ [][NextConc]_vars

(***************************************************************************)
(* Loading the configuration: main reads the environment with LoadConfig   *)
(* and logs the configuration's string form, or the error.                 *)
(***************************************************************************)

\* An environment variable: unset, or set to a text.
Unset == [set |-> FALSE, value |-> ""]
Set(v) == [set |-> TRUE, value |-> v]

\* The variables LoadConfig reads.
EnvKeys ==
  {"GOOGLE_CALENDAR_CREDENTIALS_JSON", "GOOGLE_CALENDAR_ID", "GOOGLE_CALENDAR_TIMEZONE",
   "MCP_SERVER_NAME", "MCP_SERVER_VERSION", "LOG_LEVEL", "ENVIRONMENT", "DEBUG"}

\* Texts given for the credentials: empty, two inline JSON texts, and the
\* paths of two files.
InlineJSON == {"{a}", "{b}"}
CredentialPaths == {"creds.json", "gone.json"}
CredentialTexts == {""} \cup InlineJSON \cup CredentialPaths

\* The values given to each variable.
EnvValues(key) ==
  IF key = "GOOGLE_CALENDAR_CREDENTIALS_JSON" THEN {Unset} \cup {Set(v) : v \in CredentialTexts}
  ELSE IF key = "GOOGLE_CALENDAR_ID" THEN {Unset, Set(""), Set("work")}
  ELSE IF key = "GOOGLE_CALENDAR_TIMEZONE" THEN {Unset, Set(""), Set("Europe/London")}
  ELSE IF key = "LOG_LEVEL" THEN {Unset, Set("DEBUG"), Set("verbose")}
  ELSE IF key = "ENVIRONMENT" THEN {Unset, Set("Production"), Set("bogus")}
  ELSE IF key = "DEBUG" THEN {Unset, Set("true"), Set("maybe")}
  ELSE {Unset}

\* The environments: a value for every variable, and the files that exist.
Environments ==
  {[vars |-> [k \in EnvKeys |->
                IF k = "GOOGLE_CALENDAR_CREDENTIALS_JSON" THEN cred
                ELSE IF k = "GOOGLE_CALENDAR_ID" THEN cal
                ELSE IF k = "GOOGLE_CALENDAR_TIMEZONE" THEN tz
                ELSE IF k = "LOG_LEVEL" THEN level
                ELSE IF k = "ENVIRONMENT" THEN environment
                ELSE IF k = "DEBUG" THEN debug
                ELSE Unset],
    files |-> f] :
     cred \in EnvValues("GOOGLE_CALENDAR_CREDENTIALS_JSON"),
     cal \in EnvValues("GOOGLE_CALENDAR_ID"),
     tz \in EnvValues("GOOGLE_CALENDAR_TIMEZONE"),
     level \in EnvValues("LOG_LEVEL"),
     environment \in EnvValues("ENVIRONMENT"),
     debug \in EnvValues("DEBUG"),
     f \in {{}, {"creds.json"}}}

\* os.Getenv(key): the empty text for an unset variable.
Getenv(e, key) == IF e.vars[key].set THEN e.vars[key].value ELSE ""

\* A lookup that takes the variable's value even when it is empty.
getEnvNoDefault(e, key, defaultValue) == Getenv(e, key)

\* getEnvWithDefault(key, defaultValue).
getEnvWithDefault(e, key, defaultValue) ==
  IF Getenv(e, key) # "" THEN Getenv(e, key) ELSE defaultValue

\* getEnvBool(key, defaultValue): strconv.ParseBool of the texts given.
getEnvBool(e, key, defaultValue) ==
  IF Getenv(e, key) = "true" THEN TRUE
  ELSE IF Getenv(e, key) = "false" THEN FALSE
  ELSE defaultValue

\* strings.ToLower on the texts given.
ToLower(t) ==
  IF t = "DEBUG" THEN "debug" ELSE IF t = "Production" THEN "production" ELSE t

\* strings.HasPrefix(t, "{") on the texts given.
HasBracePrefix(t) == t \in InlineJSON

validLogLevels == {"debug", "info", "warn", "error", "fatal"}
validEnvironments == {"development", "staging", "production", "test"}

\* DefaultCalendarID and DefaultTimeZone of errors.go.
DefaultCalendarID == "primary"
DefaultTimeZone == "UTC"

\* validateConfig(config): the messages collected in errors; os.Stat finds
\* the files of e.files.
validateConfig(c, e) ==
  (IF c.CredentialsJSON = ""
     THEN <<"GOOGLE_CALENDAR_CREDENTIALS_JSON is required">> ELSE <<>>)
  \o (IF c.CredentialsJSON # "" /\ ~HasBracePrefix(c.CredentialsJSON)
           /\ c.CredentialsJSON \notin e.files
        THEN <<"Credentials file not found">> ELSE <<>>)
  \o (IF c.CalendarID = "" THEN <<"Calendar ID cannot be empty">> ELSE <<>>)
  \o (IF c.TimeZone = "" THEN <<"Timezone cannot be empty">> ELSE <<>>)
  \o (IF ToLower(c.LogLevel) \notin validLogLevels THEN <<"Invalid log level">> ELSE <<>>)
  \o (IF ToLower(c.Environment) \notin validEnvironments
        THEN <<"Invalid environment">> ELSE <<>>)

\* The configuration LoadConfig builds from the environment.
envConfig(e) ==
  [CredentialsJSON |-> getEnvWithDefault(e, "GOOGLE_CALENDAR_CREDENTIALS_JSON", ""),
   CalendarID |-> getEnvWithDefault(e, "GOOGLE_CALENDAR_ID", DefaultCalendarID),
   TimeZone |-> getEnvWithDefault(e, "GOOGLE_CALENDAR_TIMEZONE", DefaultTimeZone),
   ServerName |-> getEnvWithDefault(e, "MCP_SERVER_NAME", "Google Calendar MCP Server"),
   ServerVersion |-> getEnvWithDefault(e, "MCP_SERVER_VERSION", "1.0.0"),
   LogLevel |-> getEnvWithDefault(e, "LOG_LEVEL", "info"),
   Environment |-> getEnvWithDefault(e, "ENVIRONMENT", "development"),
   Debug |-> getEnvBool(e, "DEBUG", FALSE)]

\* A string form that also prints the credentials.
StringWithCredentials(c) ==
  <<"CalendarConfig", c.CredentialsJSON, c.CalendarID, c.TimeZone, c.Environment, c.Debug>>

\* CalendarConfig.String(): the format's name and the four values it prints.
String(c) == <<"CalendarConfig", c.CalendarID, c.TimeZone, c.Environment, c.Debug>>

\* main: LoadConfig succeeds.
LoadConfigOK ==
  /\ pc = "start"
  /\ validateConfig(envConfig(env), env) = <<>>
  /\ config' = envConfig(env)
  /\ cfgErr' = "nil"
  /\ pc' = "loaded"
  /\ UNCHANGED <<remoteEvents, callVars, toolVars, concVars, storeVars, env, logged>>

\* main: LoadConfig fails, log.Fatalf writes the error and the process exits.
LoadConfigFailed ==
  /\ pc = "start"
  /\ validateConfig(envConfig(env), env) # <<>>
  /\ config' = NilConfig
  /\ cfgErr' = "CONFIGURATION_ERROR"
  /\ logged' = <<"Failed to load configuration">> \o validateConfig(envConfig(env), env)
  /\ pc' = "exited"
  /\ UNCHANGED <<remoteEvents, callVars, toolVars, concVars, storeVars, env>>

\* main: log.Printf("Loaded configuration: %s", config.String()).
LogConfig ==
  /\ pc = "loaded"
  /\ logged' = String(config)
  /\ pc' = "done"
  /\ UNCHANGED <<remoteEvents, callVars, toolVars, concVars, storeVars, env, config, cfgErr>>

InitConfig ==
  /\ remoteEvents = <<>>
  /\ NoCall
  /\ pc = "start"
  /\ service = "nil"
  /\ tool = "none"
  /\ args = NoArgs
  /\ toolResult = NoResult
  /\ svcCalls = 0
  /\ callArgs = <<>>
  /\ frames = <<>>
  /\ NoRequest
  /\ env \in Environments
  /\ config = NilConfig
  /\ cfgErr = "nil"
  /\ logged = <<>>

NextConfig ==
  \/ LoadConfigOK
  \/ LoadConfigFailed
  \/ LogConfig

SpecConfig == InitConfig /\ [][NextConfig]_vars

(***************************************************************************)
(* The service layer called directly: CreateEvent and UpdateEvent with     *)
(* any request a caller of the CalendarService interface can build.        *)
(***************************************************************************)

\* The instants a request can carry, the zero time.Time among them.
RequestTimes == Times \cup {ZeroTime}

\* The pointers to an instant an update can carry.
TimePointers == {NilTime} \cup {PtrTime(t) : t \in Times}

\* A direct call of CreateEvent with any EventCreateRequest.
CreateEvent ==
  /\ pc = "ready"
  /\ \E summary \in {<<>>, <<1>>}, st \in RequestTimes, et \in RequestTimes,
        attendees \in {<<>>, <<1>>, <<0>>} :
       /\ args' = [Summary |-> summary, StartTime |-> st, EndTime |-> et,
                   Attendees |-> attendees]
       /\ createEvent(summary, st, et, attendees)
  /\ pc' = "done"
  /\ UNCHANGED <<remoteEvents, service, tool, toolResult, svcCalls, concVars, configVars>>

\* A direct call of UpdateEvent with any event id and EventUpdateRequest.
UpdateEvent ==
  /\ pc = "ready"
  /\ \E eventID \in {<<>>, <<1>>}, summary \in NameArgs, st \in TimePointers,
        et \in TimePointers :
       /\ args' = [eventID |-> eventID,
                   update |-> [Summary |-> summary, StartTime |-> st, EndTime |-> et]]
       /\ updateEvent(eventID, summary, st, et)
  /\ pc' = "done"
  /\ UNCHANGED <<remoteEvents, service, tool, toolResult, svcCalls, concVars, configVars>>

InitService ==
  /\ remoteEvents = <<>>
  /\ NoCall
  /\ pc = "ready"
  /\ service = "ok"
  /\ tool = "none"
  /\ args = NoArgs
  /\ toolResult = NoResult
  /\ svcCalls = 0
  /\ callArgs = <<>>
  /\ frames = <<>>
  /\ storedEvent \in StoredEvents
  /\ sentEvent = NoEvent
  /\ listParams = NoParams
  /\ NoConfig

NextService ==
  \/ CreateEvent
  \/ UpdateEvent

SpecService == InitService /\ [][NextService]_vars

TypeOK ==
  /\ Len(remoteEvents) <= MaxBusy
  /\ \A i \in 1..Len(remoteEvents) : remoteEvents[i] \in Events
  /\ startTime \in Times
  /\ endTime \in Times
  /\ pc \in {"ready", "done"}
  /\ err \in {"nil", "INVALID_TIME_RANGE", "INVALID_CREDENTIALS", "SERVICE_UNAVAILABLE"}
  /\ errType \in {"nil", "INVALID_INPUT", "AUTHENTICATION_ERROR", "INTERNAL_ERROR"}
  /\ slotRuns \in 0..1
  /\ Len(requests) <= 1

(***************************************************************************)
(* Vocabulary of the properties.                                           *)
(***************************************************************************)

\* The call returned slots: it passed the range check and the store answered.
Succeeded == pc = "done" /\ err = "nil"

\* The busy interval an event stands for.
BusyStart(e) == ParseRFC3339(e.Start)
BusyEnd(e) == ParseRFC3339(e.End)

\* start after end.
Malformed(e) == BusyStart(e) > BusyEnd(e)

\* Every supplied interval satisfies the data model's start <= end.
WellFormedBusy == \A i \in 1..Len(remoteEvents) : ~Malformed(remoteEvents[i])

\* A successful call on a proper window (start < end) and well-formed intervals.
ProperCall == Succeeded /\ startTime < endTime /\ WellFormedBusy

\* A well-formed interval of positive length lying inside the window.
InsideWindow(e) ==
  /\ startTime <= BusyStart(e)
  /\ BusyStart(e) < BusyEnd(e)
  /\ BusyEnd(e) <= endTime

\* The slots tile [a, b): first starts at a, last ends at b, consecutive
\* slots meet, and no two slots overlap.
Tiles(slots, a, b) ==
  /\ Len(slots) > 0
  /\ slots[1].Start = a
  /\ slots[Len(slots)].End = b
  /\ \A i \in 1..(Len(slots) - 1) : slots[i].End = slots[i + 1].Start
  /\ \A i \in 1..Len(slots) : slots[i].Start <= slots[i].End
  /\ \A i \in 1..Len(slots) : \A j \in (i + 1)..Len(slots) :
       slots[i].End <= slots[j].Start

\* C1: for a window with start < end and any busy list, the returned slots,
\* in output order, tile the window exactly (no gap, no overlap).
C1_SlotsTileWindow ==
  ProperCall => Tiles(timeSlots, startTime, endTime)

\* C2: no two adjacent slots of the output carry the same free flag.
C2_AdjacentSlotsAlternate ==
  ProperCall =>
    \A i \in 1..(Len(timeSlots) - 1) : timeSlots[i].Free # timeSlots[i + 1].Free

\* The busy slots of the output that share an instant of [lo, hi).
BusySlotsWithin(lo, hi) ==
  {k \in 1..Len(timeSlots) :
     /\ ~timeSlots[k].Free
     /\ timeSlots[k].Start < hi
     /\ timeSlots[k].End > lo}

Min(a, b) == IF a < b THEN a ELSE b
Max(a, b) == IF a > b THEN a ELSE b

\* C3: two busy intervals inside the window that overlap (partially or by
\* containment) are reported as exactly one busy slot covering their union.
C3_OverlappingBusyMerged ==
  ProperCall =>
    \A i \in 1..Len(remoteEvents) : \A j \in (i + 1)..Len(remoteEvents) :
      LET a == remoteEvents[i]
          b == remoteEvents[j]
          lo == Min(BusyStart(a), BusyStart(b))
          hi == Max(BusyEnd(a), BusyEnd(b))
      IN (/\ InsideWindow(a)
          /\ InsideWindow(b)
          /\ BusyStart(a) < BusyEnd(b)
          /\ BusyStart(b) < BusyEnd(a))
         => /\ Cardinality(BusySlotsWithin(lo, hi)) = 1
            /\ \A k \in BusySlotsWithin(lo, hi) :
                 timeSlots[k].Start <= lo /\ timeSlots[k].End >= hi

\* C4: two busy intervals A, B inside the window with A.end = B.start are
\* reported as one busy slot reaching from A.start to B.end.
C4_AbuttingBusyMerged ==
  ProperCall =>
    \A i \in 1..Len(remoteEvents) : \A j \in 1..Len(remoteEvents) :
      LET a == remoteEvents[i]
          b == remoteEvents[j]
      IN (/\ i # j
          /\ InsideWindow(a)
          /\ InsideWindow(b)
          /\ BusyEnd(a) = BusyStart(b))
         => \E k \in 1..Len(timeSlots) :
              /\ ~timeSlots[k].Free
              /\ timeSlots[k].Start <= BusyStart(a)
              /\ timeSlots[k].End >= BusyEnd(b)

\* C5: a call whose busy list holds a malformed interval (start after end)
\* fails: it returns an error and no slot at all.
C5_MalformedIntervalRejected ==
  (/\ pc = "done"
   /\ \E i \in 1..Len(remoteEvents) : Malformed(remoteEvents[i]))
  => (err # "nil" /\ timeSlots = <<>>)

\* C6: a window with start = end yields the empty slot sequence, whatever
\* the busy list is.
C6_EmptyWindowNoSlots ==
  (Succeeded /\ startTime = endTime /\ WellFormedBusy) => timeSlots = <<>>

\* The interval shares no instant with the window [startTime, endTime).
OutsideWindow(e) == BusyEnd(e) <= startTime \/ BusyStart(e) >= endTime

RemoveAt(q, k) == SubSeq(q, 1, k - 1) \o SubSeq(q, k + 1, Len(q))

\* C7: a busy interval that does not intersect the window (touching a window
\* boundary included) changes nothing: the output equals the output for the
\* list without it.
C7_OutsideIntervalIgnored ==
  ProperCall =>
    \A k \in 1..Len(remoteEvents) :
      OutsideWindow(remoteEvents[k])
        => calculateFreeTimeSlots(startTime, endTime, RemoveAt(remoteEvents, k))
             = timeSlots

\* C8: supplying a busy interval a second time changes nothing.
C8_DuplicateIntervalIdempotent ==
  ProperCall =>
    \A k \in 1..Len(remoteEvents) :
      calculateFreeTimeSlots(startTime, endTime,
                             Append(remoteEvents, remoteEvents[k]))
        = timeSlots

\* The rearrangements of a sequence.
Rearrangements(q) ==
  {[i \in 1..Len(q) |-> q[f[i]]] :
     f \in {g \in [1..Len(q) -> 1..Len(q)] :
              \A i \in 1..Len(q) : \A j \in 1..Len(q) : g[i] = g[j] => i = j}}

\* C9: every permutation of the busy list yields the same slot sequence.
C9_OrderIndependent ==
  ProperCall =>
    \A p \in Rearrangements(remoteEvents) :
      calculateFreeTimeSlots(startTime, endTime, p) = timeSlots

\* The unit cells [t, t+1) of the window.
WindowCells == {t \in Times : startTime <= t /\ t < endTime}

FreeCells ==
  {t \in WindowCells :
     \E k \in 1..Len(timeSlots) :
       timeSlots[k].Free /\ timeSlots[k].Start <= t /\ t < timeSlots[k].End}

BusyCells ==
  {t \in WindowCells :
     \E i \in 1..Len(remoteEvents) :
       BusyStart(remoteEvents[i]) <= t /\ t < BusyEnd(remoteEvents[i])}

\* Instant t lies on a supplied busy interval, end points included.
OnBusyInterval(t) ==
  \E i \in 1..Len(remoteEvents) :
    BusyStart(remoteEvents[i]) <= t /\ t <= BusyEnd(remoteEvents[i])

\* Each free slot is bounded on both sides by the window or a busy interval.
FreeSlotsMaximal ==
  \A k \in 1..Len(timeSlots) :
    timeSlots[k].Free =>
      /\ timeSlots[k].Start < timeSlots[k].End
      /\ timeSlots[k].Start = startTime \/ OnBusyInterval(timeSlots[k].Start)
      /\ timeSlots[k].End = endTime \/ OnBusyInterval(timeSlots[k].End)

\* C10: for a window with start < end the free slots cover exactly the part
\* of the window no busy interval covers, and each free slot is maximal.
C10_FreeIsWindowMinusBusy ==
  (Succeeded /\ startTime < endTime) =>
    /\ FreeCells = WindowCells \ BusyCells
    /\ FreeSlotsMaximal

\* On well-formed intervals the free slots are exact and maximal.
FreeSlotsExactWhenWellFormed ==
  ProperCall => (FreeCells = WindowCells \ BusyCells /\ FreeSlotsMaximal)

\* C11: for a window with start < end, when no busy interval intersects the
\* window, the output is the single free slot [window.start, window.end).
C11_NoIntersectionOneFreeSlot ==
  (ProperCall /\ \A i \in 1..Len(remoteEvents) : OutsideWindow(remoteEvents[i]))
    => timeSlots = <<TimeSlot(startTime, endTime, TRUE)>>

\* C12: a single busy interval covering the whole window yields exactly the
\* busy slot [window.start, window.end); an interval that starts before the
\* window is reported from window.start, one that ends after it is reported
\* up to window.end.
C12_CoveringBusyClipped ==
  Succeeded =>
    /\ (/\ Len(remoteEvents) = 1
        /\ BusyStart(remoteEvents[1]) <= startTime
        /\ BusyEnd(remoteEvents[1]) >= endTime)
       => timeSlots = <<TimeSlot(startTime, endTime, FALSE)>>
    /\ \A i \in 1..Len(remoteEvents) :
         LET e == remoteEvents[i]
         IN /\ (BusyStart(e) < startTime /\ BusyEnd(e) > startTime)
               => \E k \in 1..Len(timeSlots) :
                    timeSlots[k] = TimeSlot(startTime, Min(BusyEnd(e), endTime), FALSE)
            /\ (BusyEnd(e) > endTime /\ BusyStart(e) < endTime)
               => \E k \in 1..Len(timeSlots) :
                    timeSlots[k] = TimeSlot(Max(BusyStart(e), startTime), endTime, FALSE)

\* C12's case: one interval reaching beyond both ends of the window was
\* reported as the window-sized busy slot.
C12_Witness ==
  /\ Succeeded
  /\ Len(remoteEvents) = 1
  /\ BusyStart(remoteEvents[1]) < startTime
  /\ BusyEnd(remoteEvents[1]) > endTime
  /\ startTime < endTime
  /\ timeSlots = <<TimeSlot(startTime, endTime, FALSE)>>

\* C13: a single busy interval [a, b) strictly inside the window yields
\* free [window.start, a), busy [a, b), free [b, window.end), in this order.
C13_InnerBusyThreeSlots ==
  (/\ Succeeded
   /\ Len(remoteEvents) = 1
   /\ startTime < BusyStart(remoteEvents[1])
   /\ BusyStart(remoteEvents[1]) < BusyEnd(remoteEvents[1])
   /\ BusyEnd(remoteEvents[1]) < endTime)
  => timeSlots = << TimeSlot(startTime, BusyStart(remoteEvents[1]), TRUE),
                    TimeSlot(BusyStart(remoteEvents[1]), BusyEnd(remoteEvents[1]), FALSE),
                    TimeSlot(BusyEnd(remoteEvents[1]), endTime, TRUE) >>

\* C13's case: a call on one interval strictly inside the window returned
\* three slots.
C13_Witness ==
  /\ Succeeded
  /\ Len(remoteEvents) = 1
  /\ startTime < BusyStart(remoteEvents[1])
  /\ BusyStart(remoteEvents[1]) < BusyEnd(remoteEvents[1])
  /\ BusyEnd(remoteEvents[1]) < endTime
  /\ Len(timeSlots) = 3

\* C14: for a window with start <= end and well-formed busy intervals the
\* slots are sorted by start ascending and each slot satisfies
\* window.start <= slot.start <= slot.end <= window.end.
C14_SlotsSortedWithinWindow ==
  (Succeeded /\ WellFormedBusy) =>
    /\ \A k \in 1..(Len(timeSlots) - 1) : timeSlots[k].Start <= timeSlots[k + 1].Start
    /\ \A k \in 1..Len(timeSlots) :
         /\ startTime <= timeSlots[k].Start
         /\ timeSlots[k].Start <= timeSlots[k].End
         /\ timeSlots[k].End <= endTime

\* C14's case: two well-formed intervals supplied latest first, one of them
\* reaching outside the window, were turned into at least three slots.
C14_Witness ==
  /\ Succeeded
  /\ WellFormedBusy
  /\ Len(remoteEvents) = 2
  /\ BusyStart(remoteEvents[1]) > BusyStart(remoteEvents[2])
  /\ BusyStart(remoteEvents[2]) < startTime
  /\ BusyEnd(remoteEvents[2]) > startTime
  /\ BusyEnd(remoteEvents[1]) > BusyStart(remoteEvents[1])
  /\ BusyStart(remoteEvents[1]) < endTime
  /\ Len(timeSlots) >= 3

\* C15: the computation leaves the caller's busy list as it was: the same
\* intervals in the same order.
C15_InputListUnchanged ==
  Succeeded => events = remoteEvents

\* C18: CheckAvailability with start after end returns the INVALID_TIME_RANGE
\* invalid-input error and no slots, sends nothing to the calendar store and
\* does not run the slot computation.
C18_StartAfterEndRejectedFirst ==
  (pc = "done" /\ startTime > endTime) =>
    /\ err = "INVALID_TIME_RANGE"
    /\ errType = "INVALID_INPUT"
    /\ timeSlots = <<>>
    /\ requests = <<>>
    /\ slotRuns = 0

\* C18's case: a call with start after end has returned.
C18_Witness ==
  /\ pc = "done"
  /\ startTime > endTime
  /\ err = "INVALID_TIME_RANGE"

\* C19: a time range is accepted only when start is strictly before end: a
\* call with start = end or start > end does not succeed.
C19_RangeNeedsStartBeforeEnd ==
  Succeeded => startTime < endTime

\* The request gave no start_time or end_time, or one that is no RFC3339
\* timestamp.
BadTimeArgs ==
  \/ ~args.start_time.present
  \/ ~args.end_time.present
  \/ Len(args.start_time.text) # 1
  \/ Len(args.end_time.text) # 1

\* C17: check_google_calendar answers a request whose start_time or end_time
\* is missing or is no RFC3339 timestamp with an error result, and neither
\* CheckAvailability nor the slot computation runs for it.
C17_BadTimesNeverReachService ==
  (pc = "done" /\ tool = "check_google_calendar" /\ BadTimeArgs) =>
    /\ toolResult.isError
    /\ svcCalls = 0
    /\ slotRuns = 0
    /\ requests = <<>>

\* C17's case: the service is available and the request carries a valid
\* start_time and an end_time that is no timestamp.
C17_Witness ==
  /\ pc = "done"
  /\ tool = "check_google_calendar"
  /\ service = "ok"
  /\ args.start_time.present
  /\ Len(args.start_time.text) = 1
  /\ args.end_time.present
  /\ Len(args.end_time.text) = 2
  /\ toolResult = ErrorResult("Invalid end_time format")

\* What the calculate handler answers to the arguments a.
CalculateAnswer(a) ==
  IF a.operation = "absent" THEN ErrorResult("required argument")
  ELSE IF a.operation = "divide" /\ a.y = 0 THEN ErrorResult("cannot divide by zero")
  ELSE [isError |-> FALSE, text |-> "result",
        value |-> CASE a.operation = "add" -> <<a.x + a.y, 1>>
                    [] a.operation = "subtract" -> <<a.x - a.y, 1>>
                    [] a.operation = "multiply" -> <<a.x * a.y, 1>>
                    [] a.operation = "divide" -> <<a.x, a.y>>]

\* C20: with a nil service every calendar tool answers 'Calendar service
\* unavailable' without calling a method of the service or the store, the
\* request is answered (the server did not exit), and calculate answers as
\* it does with a service.
C20_NilServiceAnsweredUnavailable ==
  /\ (pc = "done" /\ service = "nil" /\ tool \in CalendarTools) =>
       /\ toolResult = Unavailable
       /\ svcCalls = 0
       /\ requests = <<>>
  /\ (service = "nil" /\ tool # "none") => pc = "done"
  /\ (pc = "done" /\ tool = "calculate") => toolResult = CalculateAnswer(args)

\* C20's case: the server started with a nil service and get_calendar_info
\* was called.
C20_Witness ==
  /\ pc = "done"
  /\ service = "nil"
  /\ tool = "get_calendar_info"
  /\ toolResult = Unavailable

\* C16: of two calls running concurrently on their own windows and busy
\* lists, each returns the slots it returns when run alone, and a step of
\* one call leaves the other call's variables as they are.
C16_ConcurrentCallsIndependent ==
  /\ [](\A p \in Calls :
          frames[p].pc = "done" =>
            frames[p].timeSlots =
              calculateFreeTimeSlots(callArgs[p].startTime, callArgs[p].endTime,
                                     callArgs[p].events))
  /\ [][\A p \in Calls : \A q \in Calls \ {p} :
          frames'[p] # frames[p] => frames'[q] = frames[q]]_vars

\* C16's case: both calls have returned, on different arguments, each after
\* at least one loop iteration, one of them after its sort moved an event.
C16_Witness ==
  /\ DOMAIN frames = Calls
  /\ \A p \in Calls : frames[p].pc = "done" /\ Len(callArgs[p].events) >= 1
  /\ \E p \in Calls : frames[p].events # callArgs[p].events
  /\ callArgs[1] # callArgs[2]
  /\ frames[1].timeSlots # frames[2].timeSlots

\* The request was an update that reached the store's Events.Update.
UpdateSent == tool = "update_calendar_event" /\ Len(requests) = 2

\* C21: in an update, a field absent from the request leaves the event's
\* field as it was, and a field present but empty clears it; shown on the
\* title, which the handler treats like description and location.
C21_AbsentKeepsEmptyClears ==
  [][UpdateSent' =>
       /\ ~args'.title.present => sentEvent'.Summary = storedEvent.Summary
       /\ (args'.title.present /\ args'.title.text = <<>>) => sentEvent'.Summary = <<>>]_vars

\* The request was a listing or a search whose events the handler returned.
EventsReturned ==
  /\ pc = "done"
  /\ tool \in {"list_calendar_events", "search_calendar_events"}
  /\ requests # <<>>
  /\ err = "nil"

\* C22: list_calendar_events and search_calendar_events return at most
\* max_results events when max_results is given, and at most 50 otherwise.
C22_AtMostMaxResults ==
  EventsReturned =>
    Len(events) <= (IF args.max_results.present
                    THEN args.max_results.value
                    ELSE DefaultMaxResults)

\* C23: check_google_calendar asks the store for the calendar calendar_id
\* names when it is given, and for the configured calendar only otherwise.
C23_NamedCalendarChecked ==
  (tool = "check_google_calendar" /\ listParams # NoParams) =>
    listParams.calendarId = (IF args.calendar_id.present
                             THEN args.calendar_id.text
                             ELSE ConfiguredCalendar)

\* The call sent its last request more than once.
Retried ==
  Len(requests) >= 2 /\ requests[Len(requests)] = requests[Len(requests) - 1]

\* C24: a failure is reported for a request the store answered with a
\* rate-limit error only after the request was tried again.
C24_RateLimitRetried ==
  (pc = "done" /\ storeError = "rateLimitExceeded") => Retried

\* LoadConfig has returned.
ConfigLoaded == env # NoEnv /\ pc \in {"loaded", "exited", "done"}

\* Only the credentials are set, to an inline JSON text.
OnlyInlineCredentials ==
  /\ Getenv(env, "GOOGLE_CALENDAR_CREDENTIALS_JSON") \in InlineJSON
  /\ \A k \in EnvKeys \ {"GOOGLE_CALENDAR_CREDENTIALS_JSON"} : ~env.vars[k].set

\* C25: LoadConfig returns an error and no configuration whenever
\* GOOGLE_CALENDAR_CREDENTIALS_JSON is unset or empty; with inline JSON
\* credentials and nothing else set it succeeds with CalendarID "primary" and
\* TimeZone "UTC".
C25_CredentialsRequiredDefaultsApplied ==
  ConfigLoaded =>
    /\ Getenv(env, "GOOGLE_CALENDAR_CREDENTIALS_JSON") = "" =>
         cfgErr # "nil" /\ config = NilConfig
    /\ OnlyInlineCredentials =>
         /\ cfgErr = "nil"
         /\ config # NilConfig
         /\ config.CalendarID = "primary"
         /\ config.TimeZone = "UTC"

\* C25's case: the configuration was loaded from inline credentials alone.
C25_Witness ==
  /\ ConfigLoaded
  /\ OnlyInlineCredentials
  /\ cfgErr = "nil"
  /\ config.CredentialsJSON \in InlineJSON

\* C26: the string form of a configuration is that of every configuration
\* differing from it only in CredentialsJSON, and it is what main logs.
C26_StringIgnoresCredentials ==
  (env # NoEnv /\ pc = "done") =>
    \A cred \in CredentialTexts :
      String([config EXCEPT !.CredentialsJSON = cred]) = logged

\* C26's case: a configuration with credentials was logged.
C26_Witness ==
  /\ env # NoEnv
  /\ pc = "done"
  /\ config.CredentialsJSON = "{a}"
  /\ logged = <<"CalendarConfig", "work", "UTC", "Production", TRUE>>

\* The request was a division by zero.
DividedByZero ==
  /\ pc = "done"
  /\ tool = "calculate"
  /\ args.operation = "divide"
  /\ args.y = 0

\* C27: calculate with operation divide and y = 0 returns the error result
\* "cannot divide by zero" and no numeric result, whatever x is.
C27_DivideByZeroIsError ==
  DividedByZero =>
    /\ toolResult = ErrorResult("cannot divide by zero")
    /\ "value" \notin DOMAIN toolResult

\* C27's case: 2 was divided by 0 and the error came back.
C27_Witness ==
  /\ DividedByZero
  /\ args.x = 2
  /\ toolResult.isError

\* CreateEvent was called with a request it must refuse.
InvalidCreateRequest ==
  /\ pc = "done"
  /\ "Attendees" \in DOMAIN args
  /\ \/ args.Summary = <<>>
     \/ args.StartTime = ZeroTime
     \/ args.EndTime = ZeroTime
     \/ args.StartTime > args.EndTime
     \/ args.Attendees = <<0>>

\* C28: CreateEvent with an empty summary, a zero time, a start after the
\* end or an attendee without "@" returns an invalid-input error and sends
\* no insert request to the store.
C28_CreateValidatedBeforeInsert ==
  InvalidCreateRequest => errType = "INVALID_INPUT" /\ requests = <<>>

\* C28's case: a request valid but for an attendee without "@" was refused.
C28_Witness ==
  /\ InvalidCreateRequest
  /\ args.Summary # <<>>
  /\ args.StartTime # ZeroTime
  /\ args.StartTime < args.EndTime
  /\ err = "INVALID_EVENT_DATA"
  /\ requests = <<>>

\* C29: UpdateEvent sends the store no event whose start is after its end;
\* an update that would leave the event so is refused before any update
\* request, so every event sent has its start at or before its end.
C29_UpdateKeepsStartBeforeEnd ==
  sentEvent # NoEvent =>
    ParseRFC3339(sentEvent.Start) <= ParseRFC3339(sentEvent.End)

\* The cursor currentTime after the first n events of the sorted list.
Cursor(n) == sweep(events, n, startTime, endTime).currentTime

\* C30: during the sweep the cursor starts at the window's start, never
\* decreases from one step to the next and stays within the window, whatever
\* the busy list holds.
C30_CursorMonotoneInWindow ==
  (pc = "done" /\ slotRuns = 1) =>
    /\ Cursor(0) = startTime
    /\ \A n \in 1..Len(events) : Cursor(n - 1) <= Cursor(n)
    /\ \A n \in 0..Len(events) : startTime <= Cursor(n) /\ Cursor(n) <= endTime

\* C30's case: the sweep advanced the cursor at both of two events, the
\* second of them malformed or reaching past the window's end.
C30_Witness ==
  /\ pc = "done"
  /\ slotRuns = 1
  /\ Len(events) = 2
  /\ startTime < Cursor(1)
  /\ Cursor(1) < Cursor(2)
  /\ \/ Malformed(events[2])
     \/ BusyEnd(events[2]) > endTime

====
